---- MODULE Spec2Model ----
(***************************************************************************)
(* The two Node migration scripts of the goryu documentation site:         *)
(*   - the Doc Migrator (src/unnamed/part_000), which copies every         *)
(*     <topic>/README.md of documentation/middleware to                    *)
(*     docs/middleware/<topic>.md, writes index.md and dumps the topic     *)
(*     list;                                                               *)
(*   - the path-pair copy script (src/migrate_remaining.js).               *)
(*                                                                         *)
(* Text is written as a TLA+ string in the notation of a JavaScript string *)
(* literal: the characters 32..126 and the line feed stand for themselves, *)
(* except '\' and '`'; any other byte of a file is written \xHH and any    *)
(* other UTF-16 code unit of a JavaScript string \uHHHH (upper-case hex).  *)
(* The content of a file is the text of its bytes.  A path is the text of  *)
(* the path relative to the project root                                   *)
(* /Users/arthur/Documents/personal/goryudoc.  The file system is the pair *)
(* (fs, dirs): fs maps the path of every regular file to its bytes, dirs   *)
(* is the set of the directories.                                          *)
(***************************************************************************)
EXTENDS Integers, Sequences, FiniteSets, TLC

VARIABLES
    fs,                \* [path -> bytes]: the regular files
    dirs,              \* set of paths: the directories
    listing,           \* the order in which readdirSync returns sourceDir's entries
    pc,                \* position of the running script
    middlewares,       \* part_000:11
    i,                 \* forEach's position in the array it walks (1-based)
    middlewareList,    \* part_000:13
    indexContent,      \* part_000:30
    configContent,     \* part_000:43
    sidebarItems,      \* part_000:45
    newSidebarSection, \* part_000:47
    stdout,            \* the console.log calls of the running process, in order
    effects,           \* the side effects of the running process, in order
    err,               \* the exception that ended the process, "none" while it runs
    run,               \* number of the current invocation of the script
    fs0,               \* history: fs when the current invocation started
    prev,              \* history: how the previous invocation ended, fs at its start and end
    isDark,            \* Layout.vue:7, the value of the ref isDark
    label,             \* Layout.vue:19-20, the text of the span the toggle button shows
    isDark0,           \* history: isDark when the layout was set up
    clicks             \* history: the clicks on the toggle button so far

vars == <<fs, dirs, listing, pc, middlewares, i, middlewareList, indexContent,
          configContent, sidebarItems, newSidebarSection, stdout, effects, err, run,
          fs0, prev, isDark, label, isDark0, clicks>>

\* the constants and variables of part_000 other than the loop position
locals == <<middlewares, middlewareList, indexContent, configContent, sidebarItems,
            newSidebarSection>>
\* the environment's order of the listing, and the history variables
hist == <<listing, run, fs0, prev>>
\* the page of the site in a browser
page == <<isDark, label, isDark0, clicks>>

----------------------------------------------------------------------------
(* Bounds of the model *)

\* most entries in the source directory
MaxEntries == 2
\* most invocations of the script in one behaviour
MaxRuns == 2
\* most sources of the path-pair script that exist
MaxPresent == 2
\* most clicks on the theme toggle in one behaviour
MaxClicks == 60

----------------------------------------------------------------------------
(* Literal text of the Doc Migrator *)

\* part_000:4
sourceDir == "documentation/middleware"
\* part_000:5
targetDir == "docs/middleware"
\* part_000:42
configPath == "docs/.vitepress/config.mts"
\* part_000:30-35, up to the interpolation
IndexHead ==
    "# Middleware\n\nGoryu comes with a rich set of built-in middlewares.\n\n## Available Middleware\n\n"
\* part_000:47-51
SidebarHead ==
    "      '/middleware/': [\n        {\n          text: 'Middleware',\n          items: [\n            { text: 'Overview', link: '/middleware/' },\n"
\* part_000:52-55, after the interpolation
SidebarTail == "\n          ]\n        }\n      ],"
\* part_000:64
ListHeader == "Middleware List for Sidebar:"

----------------------------------------------------------------------------
(* Sequences and strings *)

Range(s) == {s[k] : k \in 1..Len(s)}

\* String.prototype.charAt(k - 1)
CharAt(s, k) == SubSeq(s, k, k)

RECURSIVE Concat(_)
\* the concatenation of a sequence of strings
Concat(ss) ==
    IF Len(ss) = 0 THEN ""
    ELSE IF Len(ss) = 1 THEN ss[1]
    ELSE LET h == Len(ss) \div 2
         IN  Concat(SubSeq(ss, 1, h)) \o Concat(SubSeq(ss, h + 1, Len(ss)))

RECURSIVE Concat2(_)
\* the concatenation of a sequence of sequences
Concat2(ss) == IF Len(ss) = 0 THEN <<>> ELSE Head(ss) \o Concat2(Tail(ss))

RECURSIVE Join(_, _)
\* Array.prototype.join: the strings of ss with sep between neighbours
Join(ss, sep) ==
    IF Len(ss) = 0 THEN ""
    ELSE IF Len(ss) = 1 THEN ss[1]
    ELSE ss[1] \o sep \o Join(Tail(ss), sep)

\* the sequences over S of length at most n
SeqUpTo(S, n) == UNION {[1..k -> S] : k \in 0..n}

\* the sequences over S without repetition
DistinctSeqs(S, n) ==
    {s \in SeqUpTo(S, n) : \A a, b \in 1..Len(s) : a # b => s[a] # s[b]}

----------------------------------------------------------------------------
(* The notation of bytes and of UTF-16 code units *)

\* the characters that stand for themselves, in runs of consecutive codes
PlainRuns ==
    {[first |-> 10, chars |-> "\n"],
     [first |-> 32,
      chars |-> " !\"#$%&'()*+,-./0123456789:;<=>?@ABCDEFGHIJKLMNOPQRSTUVWXYZ["],
     [first |-> 93, chars |-> "]^_"],
     [first |-> 97, chars |-> "abcdefghijklmnopqrstuvwxyz{|}~"]}

\* the codes of the characters that stand for themselves
PlainCodes == UNION {{r.first + k - 1 : k \in 1..Len(r.chars)} : r \in PlainRuns}

\* the code of a character that stands for itself
CodeOf(c) ==
    LET r == CHOOSE q \in PlainRuns : \E k \in 1..Len(q.chars) : CharAt(q.chars, k) = c
    IN  r.first + (CHOOSE k \in 1..Len(r.chars) : CharAt(r.chars, k) = c) - 1

\* the character of a code of PlainCodes
CharOf(n) ==
    LET r == CHOOSE q \in PlainRuns : n >= q.first /\ n < q.first + Len(q.chars)
    IN  CharAt(r.chars, n - r.first + 1)

Hex == "0123456789ABCDEF"
HexDigit(n) == CharAt(Hex, n + 1)
HexVal(c) == (CHOOSE k \in 1..Len(Hex) : CharAt(Hex, k) = c) - 1

\* the text of one byte
ByteText(b) ==
    IF b \in PlainCodes THEN CharOf(b)
    ELSE "\\x" \o HexDigit(b \div 16) \o HexDigit(b % 16)

\* the text of one UTF-16 code unit
UnitText(u) ==
    IF u \in PlainCodes THEN CharOf(u)
    ELSE "\\u" \o HexDigit(u \div 4096) \o HexDigit((u \div 256) % 16)
               \o HexDigit((u \div 16) % 16) \o HexDigit(u % 16)

\* no byte or code unit of the text t is written as an escape
IsPlain(t) == \A k \in 1..Len(t) : CharAt(t, k) # "\\"

\* the length of the byte or code unit written at position k of t
WidthAt(t, k) ==
    IF CharAt(t, k) # "\\" THEN 1 ELSE IF CharAt(t, k + 1) = "x" THEN 4 ELSE 6

\* the positions of t where a byte or a code unit starts
Starts(t) ==
    {k \in 1..Len(t) :
        \A j \in 1..5 : (k - j >= 1 /\ CharAt(t, k - j) = "\\") => j >= WidthAt(t, k - j)}

\* the byte or code unit written at position k of t
CodeAt(t, k) ==
    IF CharAt(t, k) # "\\" THEN CodeOf(CharAt(t, k))
    ELSE IF CharAt(t, k + 1) = "x"
      THEN (16 * HexVal(CharAt(t, k + 2))) + HexVal(CharAt(t, k + 3))
    ELSE (4096 * HexVal(CharAt(t, k + 2))) + (256 * HexVal(CharAt(t, k + 3)))
         + (16 * HexVal(CharAt(t, k + 4))) + HexVal(CharAt(t, k + 5))

\* the bytes, or the code units, that the text t writes
Codes(t) ==
    LET st == Starts(t)
        at(m) == CHOOSE k \in st : Cardinality({j \in st : j <= k}) = m
    IN  [m \in 1..Cardinality(st) |-> CodeAt(t, at(m))]

----------------------------------------------------------------------------
(* UTF-8: readFileSync(p, 'utf-8') decodes the bytes of the file to a      *)
(* string, replacing every ill-formed sequence by U+FFFD; writeFileSync(p, *)
(* string) encodes the string.                                             *)

RECURSIVE Utf8DecodeFrom(_, _, _, _, _, _, _)
\* the decoder of the Encoding Standard on the bytes b from position k: cp
\* is the code point under way, needed the bytes it still lacks, lower and
\* upper the bounds of the next byte, out the code points decoded
Utf8DecodeFrom(b, k, cp, needed, lower, upper, out) ==
    IF k > Len(b) THEN (IF needed # 0 THEN Append(out, 65533) ELSE out)
    ELSE LET x == b[k] IN
      IF needed = 0 THEN
        IF x <= 127 THEN Utf8DecodeFrom(b, k + 1, 0, 0, 128, 191, Append(out, x))
        ELSE IF x >= 194 /\ x <= 223
          THEN Utf8DecodeFrom(b, k + 1, x % 32, 1, 128, 191, out)
        ELSE IF x >= 224 /\ x <= 239
          THEN Utf8DecodeFrom(b, k + 1, x % 16, 2,
                              IF x = 224 THEN 160 ELSE 128,
                              IF x = 237 THEN 159 ELSE 191, out)
        ELSE IF x >= 240 /\ x <= 244
          THEN Utf8DecodeFrom(b, k + 1, x % 8, 3,
                              IF x = 240 THEN 144 ELSE 128,
                              IF x = 244 THEN 143 ELSE 191, out)
        ELSE Utf8DecodeFrom(b, k + 1, 0, 0, 128, 191, Append(out, 65533))
      ELSE IF x < lower \/ x > upper
        THEN Utf8DecodeFrom(b, k, 0, 0, 128, 191, Append(out, 65533))
      ELSE IF needed = 1
        THEN Utf8DecodeFrom(b, k + 1, 0, 0, 128, 191,
                            Append(out, (cp * 64) + (x % 64)))
      ELSE Utf8DecodeFrom(b, k + 1, (cp * 64) + (x % 64), needed - 1, 128, 191, out)

\* the code units of one code point in a JavaScript string
CodePointText(c) ==
    IF c < 65536 THEN UnitText(c)
    ELSE UnitText(55296 + ((c - 65536) \div 1024))
         \o UnitText(56320 + ((c - 65536) % 1024))

\* the string readFileSync(path, 'utf-8') returns for a file holding bytes;
\* bytes written without an escape are ASCII and decode to themselves
Utf8Decode(bytes) ==
    IF IsPlain(bytes) THEN bytes
    ELSE LET cps == Utf8DecodeFrom(Codes(bytes), 1, 0, 0, 128, 191, <<>>)
         IN  Concat([k \in 1..Len(cps) |-> CodePointText(cps[k])])

\* the bytes of one code point
Utf8EncodeCp(c) ==
    IF c < 128 THEN ByteText(c)
    ELSE IF c < 2048 THEN ByteText(192 + (c \div 64)) \o ByteText(128 + (c % 64))
    ELSE IF c < 65536
      THEN ByteText(224 + (c \div 4096)) \o ByteText(128 + ((c \div 64) % 64))
           \o ByteText(128 + (c % 64))
    ELSE ByteText(240 + (c \div 262144)) \o ByteText(128 + ((c \div 4096) % 64))
         \o ByteText(128 + ((c \div 64) % 64)) \o ByteText(128 + (c % 64))

IsLead(u) == u >= 55296 /\ u <= 56319
IsTrail(u) == u >= 56320 /\ u <= 57343

\* the bytes that the code unit at position k of the code units u contributes:
\* a surrogate pair is one code point, a lone surrogate is encoded as U+FFFD
Utf8EncodeUnit(u, k) ==
    IF IsTrail(u[k]) /\ k > 1 /\ IsLead(u[k - 1]) THEN ""
    ELSE IF IsLead(u[k]) /\ k < Len(u) /\ IsTrail(u[k + 1])
      THEN Utf8EncodeCp(65536 + ((u[k] - 55296) * 1024) + (u[k + 1] - 56320))
    ELSE IF IsLead(u[k]) \/ IsTrail(u[k]) THEN Utf8EncodeCp(65533)
    ELSE Utf8EncodeCp(u[k])

\* the bytes writeFileSync(path, s) stores for the string s; a string written
\* without an escape is ASCII and encodes to itself
Utf8Encode(s) ==
    IF IsPlain(s) THEN s
    ELSE LET u == Codes(s) IN Concat([k \in 1..Len(u) |-> Utf8EncodeUnit(u, k)])

----------------------------------------------------------------------------
(* Paths and the file system *)

\* path.join(dir, name)
PathJoin(dir, name) == dir \o "/" \o name

\* the positions of '/' in p
Slashes(p) == {k \in 1..Len(p) : CharAt(p, k) = "/"}

\* path.dirname(p)
Dirname(p) ==
    IF Slashes(p) = {} THEN "."
    ELSE SubSeq(p, 1, (CHOOSE k \in Slashes(p) : \A m \in Slashes(p) : m <= k) - 1)

\* p and every directory above it, up to the project root
WithAncestors(p) == {p} \cup {SubSeq(p, 1, k - 1) : k \in Slashes(p)}

\* fs.existsSync(p)
existsSync(p) == p \in DOMAIN fs \/ p \in dirs

\* fs.mkdirSync(p, {recursive: true}): the directories afterwards
mkdirSync(p) == dirs \cup WithAncestors(p)

\* fs.appendFileSync(p, data) in the place of writeFileSync
appendFileSync(p, data) ==
    [q \in DOMAIN fs \cup {p} |->
        IF q = p
          THEN (IF p \in DOMAIN fs THEN fs[p] ELSE "") \o Utf8Encode(data)
          ELSE fs[q]]

\* fs.writeFileSync(p, data): the files afterwards
writeFileSync(p, data) ==
    [q \in DOMAIN fs \cup {p} |-> IF q = p THEN Utf8Encode(data) ELSE fs[q]]

\* fs.writeFileSync(p, ...) throws: no such directory, or p is a directory
writeThrows(p) == Dirname(p) \notin dirs \/ p \in dirs

\* fs.readFileSync(p, 'utf-8') (p a regular file)
readFileSync(p) == Utf8Decode(fs[p])

----------------------------------------------------------------------------
(* The text the Doc Migrator builds *)

\* part_000:36, one line of the index
IndexLink(mw) == "- [" \o mw \o "](/middleware/" \o mw \o ")"

\* as IndexContent, with the links in the opposite order
IndexContentReversed(list) ==
    IndexHead
    \o Join([k \in 1..Len(list) |-> IndexLink(list[Len(list) + 1 - k])], "\n")
    \o "\n"

\* part_000:30-37
IndexContent(list) ==
    IndexHead \o Join([k \in 1..Len(list) |-> IndexLink(list[k])], "\n") \o "\n"

\* String.prototype.toUpperCase on one code unit: the letters a..z have an
\* upper case, the other ASCII characters are their own
toUpperCase(c) ==
    LET lower == "abcdefghijklmnopqrstuvwxyz"
        upper == "ABCDEFGHIJKLMNOPQRSTUVWXYZ"
    IN  IF \E k \in 1..Len(lower) : CharAt(lower, k) = c
          THEN CharAt(upper, CHOOSE k \in 1..Len(lower) : CharAt(lower, k) = c)
          ELSE c

\* mw.charAt(0).toUpperCase() + mw.slice(1)
Capitalize(mw) ==
    IF mw = "" THEN ""
    ELSE LET w == WidthAt(mw, 1)
         IN  toUpperCase(SubSeq(mw, 1, w)) \o SubSeq(mw, w + 1, Len(mw))

SidebarItemAsNamed(mw) ==
    "            { text: '" \o mw \o "', link: '/middleware/" \o mw \o "' },"

\* part_000:45, one item
SidebarItem(mw) ==
    "            { text: '" \o Capitalize(mw) \o "', link: '/middleware/" \o mw
    \o "' },"

\* part_000:45
SidebarItems(list) == Join([k \in 1..Len(list) |-> SidebarItem(list[k])], "\n")

\* part_000:47-55
NewSidebarSection(items) == SidebarHead \o items \o SidebarTail

\* JSON.stringify of one string: quotes around it, a backslash before '"'
\* and '\', \n for a line feed
JsonString(s) ==
    LET u == Codes(s)
        bs == UnitText(92)
    IN  "\"" \o Concat([k \in 1..Len(u) |->
                         IF u[k] = 34 THEN bs \o "\""
                         ELSE IF u[k] = 92 THEN bs \o bs
                         ELSE IF u[k] = 10 THEN bs \o "n"
                         ELSE UnitText(u[k])])
             \o "\""

\* JSON.stringify(middlewareList)
JsonStringify(list) ==
    "[" \o Join([k \in 1..Len(list) |-> JsonString(list[k])], ",") \o "]"

----------------------------------------------------------------------------
(* The inputs: what the file system may hold when the Doc Migrator starts  *)

\* the names an entry of the source directory may have
Names == {"auth", "empty", "index", "README.md"}

\* the bytes a source file may hold: '#', the well-formed sequence C3 A9
\* (U+00E9) and the byte FF, which is not UTF-8
Contents == {"#", "\\xC3\\xA9", "\\xFF"}

\* what a file of the docs tree held before the run
OldContent == "old"

NoFile == [present |-> FALSE, bytes |-> ""]
File(c) == [present |-> TRUE, bytes |-> c]

\* the file at path p of the files f, if any
FileAt(f, p) == IF p \in DOMAIN f THEN File(f[p]) ELSE NoFile

\* an entry is a plain file, or a directory with or without a README.md
EntryKinds ==
    {[dir |-> FALSE, readme |-> NoFile]}
    \cup {[dir |-> TRUE, readme |-> r] : r \in {NoFile} \cup {File(c) : c \in Contents}}

\* path.join(sourceDir, mw)
MwPath(mw) == PathJoin(sourceDir, mw)
\* path.join(mwPath, 'README.md')
ReadmePath(mw) == PathJoin(MwPath(mw), "README.md")
\* the copy of a README.md put beside it, in the source directory
TargetPathInSource(mw) == PathJoin(MwPath(mw), mw \o ".md")

\* path.join(targetDir, `${mw}.md`)
TargetPath(mw) == PathJoin(targetDir, mw \o ".md")
\* path.join(targetDir, 'index.md')
IndexPath == PathJoin(targetDir, "index.md")

\* the files that earlier work may have left in the target directory
StaleFiles == {TargetPath("empty"), IndexPath}

\* the files of a source directory listed as ord, with entries of kinds kind
SourceTree(ord, kind) ==
    LET plain == {n \in Range(ord) : ~kind[n].dir}
        docs  == {n \in Range(ord) : kind[n].readme.present}
    IN  [p \in {MwPath(n) : n \in plain} |-> "#"]
        @@ [p \in {ReadmePath(n) : n \in docs} |->
              kind[CHOOSE n \in docs : ReadmePath(n) = p].readme.bytes]

\* the variables of the Doc Migrator when a process starts
\* the site is not open in a browser
PageClosed ==
    /\ isDark = FALSE
    /\ label = ""
    /\ isDark0 = FALSE
    /\ clicks = 0

InitLocals ==
    /\ middlewares = <<>>
    /\ i = 1
    /\ middlewareList = <<>>
    /\ indexContent = ""
    /\ configContent = ""
    /\ sidebarItems = ""
    /\ newSidebarSection = ""
    /\ stdout = <<>>
    /\ effects = <<>>
    /\ err = "none"

Init ==
    \E ord \in DistinctSeqs(Names, MaxEntries) :
    \E kind \in [Range(ord) -> EntryKinds] :
    \E srcExists, tgtExists, cfgExists \in BOOLEAN :
    \E stale \in SUBSET StaleFiles :
        /\ srcExists \/ ord = <<>>
        /\ tgtExists \/ stale = {}
        /\ listing = ord
        /\ fs = SourceTree(ord, kind)
                @@ [p \in stale |-> OldContent]
                @@ [p \in (IF cfgExists THEN {configPath} ELSE {}) |-> OldContent]
        /\ dirs = (IF srcExists THEN WithAncestors(sourceDir) ELSE {})
                  \cup {MwPath(n) : n \in {m \in Range(ord) : kind[m].dir}}
                  \cup (IF tgtExists THEN WithAncestors(targetDir) ELSE {})
                  \cup (IF cfgExists THEN WithAncestors(Dirname(configPath)) ELSE {})
        /\ fs0 = fs
        /\ run = 1
        /\ prev = [outcome |-> "none", fs |-> fs, start |-> fs]
        /\ pc = "start"
        /\ InitLocals
        /\ PageClosed

----------------------------------------------------------------------------
(* The side effects of a process, as the entries of effects *)

\* fs.mkdirSync(p, {recursive: true}) has returned
Mkdir(p) == [op |-> "mkdir", arg |-> p]
\* fs.writeFileSync(p, ...) has returned
Write(p) == [op |-> "write", arg |-> p]
\* fs.writeFileSync(p, ...) has opened p, which empties it, and has thrown
Truncate(p) == [op |-> "truncate", arg |-> p]
\* console.log(t) has returned
Log(t) == [op |-> "log", arg |-> t]

\* the files after a writeFileSync(p, ...) that threw once p was open
truncated(p) == [q \in DOMAIN fs \cup {p} |-> IF q = p THEN "" ELSE fs[q]]

----------------------------------------------------------------------------
(* The Doc Migrator, src/unnamed/part_000 *)

\* as EnsureTargetDir, without the call of mkdirSync
EnsureTargetDirNoMkdir ==
    /\ pc = "start"
    /\ pc' = "list"
    /\ UNCHANGED <<fs, dirs, i, stdout, effects, err, locals, hist, page>>

\* lines 7-9
EnsureTargetDir ==
    /\ pc = "start"
    /\ IF existsSync(targetDir)
         THEN UNCHANGED <<dirs, effects>>
         ELSE /\ dirs' = mkdirSync(targetDir)
              /\ effects' = Append(effects, Mkdir(targetDir))
    /\ pc' = "list"
    /\ UNCHANGED <<fs, i, stdout, err, locals, hist, page>>

\* as ListSource, with the error of readdirSync caught and an empty list in
\* the place of the listing
ListSourceSwallow ==
    /\ pc = "list"
    /\ middlewares' = IF sourceDir \in dirs THEN listing ELSE <<>>
    /\ middlewareList' = <<>>
    /\ i' = 1
    /\ pc' = "scan"
    /\ UNCHANGED <<fs, dirs, stdout, effects, err, indexContent, configContent,
                   sidebarItems, newSidebarSection, hist, page>>

\* lines 11-13; readdirSync throws when the directory does not exist
ListSource ==
    /\ pc = "list"
    /\ IF sourceDir \in dirs
         THEN /\ middlewares' = listing
              /\ middlewareList' = <<>>
              /\ i' = 1
              /\ pc' = "scan"
              /\ UNCHANGED err
         ELSE /\ pc' = "crashed"
              /\ err' = "ENOENT"
              /\ UNCHANGED <<middlewares, middlewareList, i>>
    /\ UNCHANGED <<fs, dirs, stdout, effects, indexContent, configContent,
                   sidebarItems, newSidebarSection, hist, page>>

\* as ProcessEntry, with middlewareList.push(mw) after the if on README.md
\* instead of inside it
ProcessEntryPushOutside ==
    /\ pc = "scan"
    /\ i <= Len(middlewares)
    /\ LET mw == middlewares[i]
           mwPath == MwPath(mw)
           readmePath == ReadmePath(mw)
           targetPath == TargetPath(mw)
       IN  IF mwPath \in dirs
             THEN IF existsSync(readmePath)
                    THEN /\ fs' = writeFileSync(targetPath, readFileSync(readmePath))
                         /\ stdout' = Append(stdout, "Migrated " \o mw)
                         /\ effects' = effects \o <<Write(targetPath),
                                                    Log("Migrated " \o mw)>>
                         /\ middlewareList' = Append(middlewareList, mw)
                    ELSE /\ middlewareList' = Append(middlewareList, mw)
                         /\ UNCHANGED <<fs, stdout, effects>>
             ELSE UNCHANGED <<fs, stdout, effects, middlewareList>>
    /\ i' = i + 1
    /\ UNCHANGED <<pc, err, dirs, middlewares, indexContent, configContent,
                   sidebarItems, newSidebarSection, hist, page>>

\* as ProcessEntry, with console.log before writeFileSync
ProcessEntryLogFirst ==
    /\ pc = "scan"
    /\ i <= Len(middlewares)
    /\ LET mw == middlewares[i]
           mwPath == MwPath(mw)
           readmePath == ReadmePath(mw)
           targetPath == TargetPath(mw)
       IN  IF mwPath \in dirs /\ existsSync(readmePath)
             THEN IF writeThrows(targetPath)
                    THEN /\ pc' = "crashed"
                         /\ err' = "ENOENT"
                         /\ stdout' = Append(stdout, "Migrated " \o mw)
                         /\ effects' = Append(effects, Log("Migrated " \o mw))
                         /\ UNCHANGED <<fs, middlewareList, i>>
                    ELSE /\ fs' = writeFileSync(targetPath, readFileSync(readmePath))
                         /\ stdout' = Append(stdout, "Migrated " \o mw)
                         /\ effects' = effects \o <<Log("Migrated " \o mw),
                                                    Write(targetPath)>>
                         /\ middlewareList' = Append(middlewareList, mw)
                         /\ i' = i + 1
                         /\ UNCHANGED <<pc, err>>
             ELSE /\ i' = i + 1
                  /\ UNCHANGED <<pc, err, fs, stdout, effects, middlewareList>>
    /\ UNCHANGED <<dirs, middlewares, indexContent, configContent, sidebarItems,
                   newSidebarSection, hist, page>>

\* as ProcessEntry, without the test of isDirectory: an entry that is a plain
\* file is copied as if it were the README.md of a topic
ProcessEntryCopiesFiles ==
    /\ pc = "scan"
    /\ i <= Len(middlewares)
    /\ LET mw == middlewares[i]
           mwPath == MwPath(mw)
           readmePath == IF mwPath \in dirs THEN ReadmePath(mw) ELSE mwPath
           targetPath == TargetPath(mw)
       IN  IF existsSync(readmePath)
             THEN IF writeThrows(targetPath)
                    THEN /\ pc' = "crashed"
                         /\ err' = "ENOENT"
                         /\ UNCHANGED <<fs, stdout, effects, middlewareList, i>>
                    ELSE /\ fs' = writeFileSync(targetPath, readFileSync(readmePath))
                         /\ stdout' = Append(stdout, "Migrated " \o mw)
                         /\ effects' = effects \o <<Write(targetPath),
                                                    Log("Migrated " \o mw)>>
                         /\ middlewareList' = Append(middlewareList, mw)
                         /\ i' = i + 1
                         /\ UNCHANGED <<pc, err>>
             ELSE /\ i' = i + 1
                  /\ UNCHANGED <<pc, err, fs, stdout, effects, middlewareList>>
    /\ UNCHANGED <<dirs, middlewares, indexContent, configContent, sidebarItems,
                   newSidebarSection, hist, page>>

\* as ProcessEntry, with a topic skipped when its target file exists
ProcessEntrySkipExisting ==
    /\ pc = "scan"
    /\ i <= Len(middlewares)
    /\ LET mw == middlewares[i]
           mwPath == MwPath(mw)
           readmePath == ReadmePath(mw)
           targetPath == TargetPath(mw)
       IN  IF mwPath \in dirs /\ existsSync(readmePath)
             THEN IF existsSync(targetPath)
                    THEN /\ middlewareList' = Append(middlewareList, mw)
                         /\ i' = i + 1
                         /\ UNCHANGED <<pc, err, fs, stdout, effects>>
                    ELSE IF writeThrows(targetPath)
                    THEN /\ pc' = "crashed"
                         /\ err' = "ENOENT"
                         /\ UNCHANGED <<fs, stdout, effects, middlewareList, i>>
                    ELSE /\ fs' = writeFileSync(targetPath, readFileSync(readmePath))
                         /\ stdout' = Append(stdout, "Migrated " \o mw)
                         /\ effects' = effects \o <<Write(targetPath),
                                                    Log("Migrated " \o mw)>>
                         /\ middlewareList' = Append(middlewareList, mw)
                         /\ i' = i + 1
                         /\ UNCHANGED <<pc, err>>
             ELSE /\ i' = i + 1
                  /\ UNCHANGED <<pc, err, fs, stdout, effects, middlewareList>>
    /\ UNCHANGED <<dirs, middlewares, indexContent, configContent, sidebarItems,
                   newSidebarSection, hist, page>>

ProcessEntryStartOver ==
    /\ pc = "scan"
    /\ i <= Len(middlewares)
    /\ LET mw == middlewares[i]
           mwPath == MwPath(mw)
           readmePath == ReadmePath(mw)
           targetPath == TargetPath(mw)
       IN  IF mwPath \in dirs /\ existsSync(readmePath)
             THEN IF writeThrows(targetPath)
                    THEN /\ pc' = "crashed"
                         /\ err' = "ENOENT"
                         /\ UNCHANGED <<fs, stdout, effects, middlewareList, i>>
                    ELSE /\ fs' = writeFileSync(targetPath, readFileSync(readmePath))
                         /\ stdout' = Append(stdout, "Migrated " \o mw)
                         /\ effects' = effects \o <<Write(targetPath),
                                                    Log("Migrated " \o mw)>>
                         /\ middlewareList' = Append(middlewareList, mw)
                         /\ i' = i + 1
                         /\ UNCHANGED <<pc, err>>
             ELSE /\ i' = 1
                  /\ UNCHANGED <<pc, err, fs, stdout, effects, middlewareList>>
    /\ UNCHANGED <<dirs, middlewares, indexContent, configContent, sidebarItems,
                   newSidebarSection, hist, page>>

ProcessEntryRemovesStale ==
    /\ pc = "scan"
    /\ i <= Len(middlewares)
    /\ LET mw == middlewares[i]
           mwPath == MwPath(mw)
           readmePath == ReadmePath(mw)
           targetPath == TargetPath(mw)
       IN  IF mwPath \in dirs /\ existsSync(readmePath)
             THEN IF writeThrows(targetPath)
                    THEN /\ pc' = "crashed"
                         /\ err' = "ENOENT"
                         /\ UNCHANGED <<fs, stdout, effects, middlewareList, i>>
                    ELSE /\ fs' = writeFileSync(targetPath, readFileSync(readmePath))
                         /\ stdout' = Append(stdout, "Migrated " \o mw)
                         /\ effects' = effects \o <<Write(targetPath),
                                                    Log("Migrated " \o mw)>>
                         /\ middlewareList' = Append(middlewareList, mw)
                         /\ i' = i + 1
                         /\ UNCHANGED <<pc, err>>
             ELSE /\ fs' = [q \in DOMAIN fs \ {targetPath} |-> fs[q]]
                  /\ i' = i + 1
                  /\ UNCHANGED <<pc, err, stdout, effects, middlewareList>>
    /\ UNCHANGED <<dirs, middlewares, indexContent, configContent, sidebarItems,
                   newSidebarSection, hist, page>>

\* as ProcessEntry, with middlewareList.push(mw) called twice for a topic
ProcessEntryPushTwice ==
    /\ pc = "scan"
    /\ i <= Len(middlewares)
    /\ LET mw == middlewares[i]
           mwPath == MwPath(mw)
           readmePath == ReadmePath(mw)
           targetPath == TargetPath(mw)
       IN  IF mwPath \in dirs /\ existsSync(readmePath)
             THEN IF writeThrows(targetPath)
                    THEN /\ pc' = "crashed"
                         /\ err' = "ENOENT"
                         /\ UNCHANGED <<fs, stdout, effects, middlewareList, i>>
                    ELSE /\ fs' = writeFileSync(targetPath, readFileSync(readmePath))
                         /\ stdout' = Append(stdout, "Migrated " \o mw)
                         /\ effects' = effects \o <<Write(targetPath),
                                                    Log("Migrated " \o mw)>>
                         /\ middlewareList' = middlewareList \o <<mw, mw>>
                         /\ i' = i + 1
                         /\ UNCHANGED <<pc, err>>
             ELSE /\ i' = i + 1
                  /\ UNCHANGED <<pc, err, fs, stdout, effects, middlewareList>>
    /\ UNCHANGED <<dirs, middlewares, indexContent, configContent, sidebarItems,
                   newSidebarSection, hist, page>>

\* lines 15-27, the callback of forEach on one entry
ProcessEntry ==
    /\ pc = "scan"
    /\ i <= Len(middlewares)
    /\ LET mw == middlewares[i]
           mwPath == MwPath(mw)
           readmePath == ReadmePath(mw)
           targetPath == TargetPath(mw)
       IN  IF mwPath \in dirs /\ existsSync(readmePath)
             THEN IF writeThrows(targetPath)
                    THEN /\ pc' = "crashed"
                         /\ err' = "ENOENT"
                         /\ UNCHANGED <<fs, stdout, effects, middlewareList, i>>
                    ELSE /\ fs' = writeFileSync(targetPath, readFileSync(readmePath))
                         /\ stdout' = Append(stdout, "Migrated " \o mw)
                         /\ effects' = effects \o <<Write(targetPath),
                                                    Log("Migrated " \o mw)>>
                         /\ middlewareList' = Append(middlewareList, mw)
                         /\ i' = i + 1
                         /\ UNCHANGED <<pc, err>>
             ELSE /\ i' = i + 1
                  /\ UNCHANGED <<pc, err, fs, stdout, effects, middlewareList>>
    /\ UNCHANGED <<dirs, middlewares, indexContent, configContent, sidebarItems,
                   newSidebarSection, hist, page>>

\* lines 29-39, once forEach has returned
WriteIndex ==
    /\ pc = "scan"
    /\ i > Len(middlewares)
    /\ indexContent' = IndexContent(middlewareList)
    /\ IF writeThrows(IndexPath)
         THEN /\ pc' = "crashed"
              /\ err' = "ENOENT"
              /\ UNCHANGED <<fs, effects>>
         ELSE /\ fs' = writeFileSync(IndexPath, indexContent')
              /\ effects' = Append(effects, Write(IndexPath))
              /\ pc' = "config"
              /\ UNCHANGED err
    /\ UNCHANGED <<dirs, i, stdout, middlewares, middlewareList, configContent,
                   sidebarItems, newSidebarSection, hist, page>>

\* as ReadConfig, and writes the new section in place of the old content
ReadConfigAndPatch ==
    /\ pc = "config"
    /\ configPath \in DOMAIN fs
    /\ configContent' = NewSidebarSection(SidebarItems(middlewareList))
    /\ fs' = writeFileSync(configPath, configContent')
    /\ effects' = Append(effects, Write(configPath))
    /\ pc' = "sidebar"
    /\ UNCHANGED <<dirs, i, stdout, err, middlewares, middlewareList, indexContent,
                   sidebarItems, newSidebarSection, hist, page>>

\* as ReadConfig, with the read skipped when the file does not exist
ReadConfigIfPresent ==
    /\ pc = "config"
    /\ configContent' = IF configPath \in DOMAIN fs THEN readFileSync(configPath) ELSE ""
    /\ pc' = "sidebar"
    /\ UNCHANGED <<fs, dirs, i, stdout, effects, err, middlewares, middlewareList,
                   indexContent, sidebarItems, newSidebarSection, hist, page>>

\* lines 42-43; readFileSync throws when the file does not exist
ReadConfig ==
    /\ pc = "config"
    /\ IF configPath \in DOMAIN fs
         THEN /\ configContent' = readFileSync(configPath)
              /\ pc' = "sidebar"
              /\ UNCHANGED err
         ELSE /\ pc' = "crashed"
              /\ err' = "ENOENT"
              /\ UNCHANGED configContent
    /\ UNCHANGED <<fs, dirs, i, stdout, effects, middlewares, middlewareList,
                   indexContent, sidebarItems, newSidebarSection, hist, page>>

\* lines 45-55
BuildSidebar ==
    /\ pc = "sidebar"
    /\ sidebarItems' = SidebarItems(middlewareList)
    /\ newSidebarSection' = NewSidebarSection(sidebarItems')
    /\ pc' = "dump"
    /\ UNCHANGED <<fs, dirs, i, stdout, effects, err, middlewares, middlewareList,
                   indexContent, configContent, hist, page>>

\* as DumpList, and logs the section it built
DumpListAndSection ==
    /\ pc = "dump"
    /\ stdout' = stdout \o <<newSidebarSection, ListHeader,
                             JsonStringify(middlewareList)>>
    /\ effects' = effects \o <<Log(newSidebarSection), Log(ListHeader),
                               Log(JsonStringify(middlewareList))>>
    /\ pc' = "done"
    /\ UNCHANGED <<fs, dirs, i, err, locals, hist, page>>

\* lines 64-65
DumpList ==
    /\ pc = "dump"
    /\ stdout' = stdout \o <<ListHeader, JsonStringify(middlewareList)>>
    /\ effects' = effects \o <<Log(ListHeader), Log(JsonStringify(middlewareList))>>
    /\ pc' = "done"
    /\ UNCHANGED <<fs, dirs, i, err, locals, hist, page>>

\* the next statement of part_000 calls into fs and the call can fail
AtFsCall ==
    \/ pc = "start" /\ ~existsSync(targetDir)
    \/ pc \in {"list", "scan", "config"}

\* the file that the next statement of part_000 opens for writing, if it
\* gets that far: the target of the entry (line 22) or index.md (line 39)
OpensForWriting ==
    IF pc # "scan" THEN {}
    ELSE IF i > Len(middlewares)
      THEN {p \in {IndexPath} : ~writeThrows(p)}
    ELSE {p \in {TargetPath(middlewares[i])} :
             /\ MwPath(middlewares[i]) \in dirs
             /\ existsSync(ReadmePath(middlewares[i]))
             /\ ~writeThrows(p)}

\* an fs call of part_000 throws for a reason of the environment (permission
\* denied, I/O error, disk full, ...): nothing catches it and the process
\* ends.  A writeFileSync that throws leaves its file as it was, or empty
\* when the file was open already.  Line 30 has run when line 39 throws.
Throw ==
    /\ AtFsCall
    /\ \/ UNCHANGED <<fs, effects>>
       \/ \E p \in OpensForWriting :
             /\ fs' = truncated(p)
             /\ effects' = Append(effects, Truncate(p))
    /\ indexContent' = IF pc = "scan" /\ i > Len(middlewares)
                         THEN IndexContent(middlewareList) ELSE indexContent
    /\ pc' = "crashed"
    /\ err' = "EIO"
    /\ UNCHANGED <<dirs, i, stdout, middlewares, middlewareList, configContent,
                   sidebarItems, newSidebarSection, hist, page>>

\* the variables of a new process of part_000
NewProcess ==
    /\ pc' = "start"
    /\ middlewares' = <<>>
    /\ i' = 1
    /\ middlewareList' = <<>>
    /\ indexContent' = ""
    /\ configContent' = ""
    /\ sidebarItems' = ""
    /\ newSidebarSection' = ""
    /\ stdout' = <<>>
    /\ effects' = <<>>
    /\ err' = "none"

\* part_000 is started again after a completed run: a new process, the same
\* file system, the same order of the directory listing
Rerun ==
    /\ pc = "done"
    /\ run < MaxRuns
    /\ run' = run + 1
    /\ prev' = [outcome |-> pc, fs |-> fs, start |-> fs0]
    /\ fs0' = fs
    /\ NewProcess
    /\ UNCHANGED <<fs, dirs, listing, page>>

Next ==
    \/ EnsureTargetDir
    \/ ListSource
    \/ ProcessEntry
    \/ WriteIndex
    \/ ReadConfig
    \/ BuildSidebar
    \/ DumpList
    \/ Throw
    \/ Rerun

Spec == Init /\ [][Next]_vars

\* a step of the script itself: node runs the synchronous script until it
\* returns or throws
ScriptStep ==
    \/ EnsureTargetDir
    \/ ListSource
    \/ ProcessEntry
    \/ WriteIndex
    \/ ReadConfig
    \/ BuildSidebar
    \/ DumpList

\* the script moves on: to its next statement or to the next entry, or it
\* ends on an error the script itself runs into
Advance ==
    /\ pc \notin {"done", "crashed"}
    /\ run' = run
    /\ err' \in {"none", "ENOENT"}
    /\ pc' \in {"start", "list", "scan", "config", "sidebar", "dump", "done", "crashed"}
    /\ i' \in 1..(MaxEntries + 1)
    /\ <<pc', i'>> # <<pc, i>>

\* node runs the synchronous script statement by statement until it returns
\* or throws: a process that has not ended moves on (or an I/O failure ends
\* it); nothing forces a second run
SpecFair == Init /\ [][Next]_vars /\ WF_<<pc, i>>(Advance)

\* part_000 is started again after a first run that crashed: a new process,
\* the file system as the crashed run left it, the same order of the
\* directory listing
Restart ==
    /\ pc = "crashed"
    /\ run = 1
    /\ run' = run + 1
    /\ prev' = [outcome |-> pc, fs |-> fs, start |-> fs0]
    /\ fs0' = fs
    /\ NewProcess
    /\ UNCHANGED <<fs, dirs, listing, page>>

\* the fault of the environment that makes the first run crash; it is gone
\* when the script is started again
ThrowInFirstRun == run = 1 /\ Throw

\* the inputs on which a run without a fault completes: the source directory
\* and config.mts exist
InitRestart == Init /\ sourceDir \in dirs /\ configPath \in DOMAIN fs

NextRestart ==
    \/ EnsureTargetDir
    \/ ListSource
    \/ ProcessEntry
    \/ WriteIndex
    \/ ReadConfig
    \/ BuildSidebar
    \/ DumpList
    \/ ThrowInFirstRun
    \/ Restart

SpecRestart == InitRestart /\ [][NextRestart]_vars

----------------------------------------------------------------------------
(* The path-pair copy script, src/migrate_remaining.js.  path.resolve of   *)
(* the project root and a relative path is the relative path: every path   *)
(* of the model is relative to the project root.                            *)

\* the list with the destination of the first pair given to the last pair too
mappingsSharedDest == <<
    [src |-> "documentation/client/README.md", dest |-> "docs/core/client.md"],
    [src |-> "documentation/config/README.md", dest |-> "docs/core/config.md"],
    [src |-> "documentation/db/README.md", dest |-> "docs/core/db.md"],
    [src |-> "documentation/goryuctx/README.md", dest |-> "docs/core/context.md"],
    [src |-> "documentation/monitoring/README.md", dest |-> "docs/monitoring/index.md"],
    [src |-> "documentation/monitoring/UI_README.md", dest |-> "docs/monitoring/ui.md"],
    [src |-> "documentation/plugins/README.md", dest |-> "docs/plugins/index.md"],
    [src |-> "documentation/router/builder/README.md", dest |-> "docs/router/builder.md"],
    [src |-> "documentation/tutorial.md", dest |-> "docs/guide/tutorial.md"],
    [src |-> "documentation/route/README.md", dest |-> "docs/core/client.md"]
    >>

\* migrate_remaining.js:4-15
mappings == <<
    [src |-> "documentation/client/README.md", dest |-> "docs/core/client.md"],
    [src |-> "documentation/config/README.md", dest |-> "docs/core/config.md"],
    [src |-> "documentation/db/README.md", dest |-> "docs/core/db.md"],
    [src |-> "documentation/goryuctx/README.md", dest |-> "docs/core/context.md"],
    [src |-> "documentation/monitoring/README.md", dest |-> "docs/monitoring/index.md"],
    [src |-> "documentation/monitoring/UI_README.md", dest |-> "docs/monitoring/ui.md"],
    [src |-> "documentation/plugins/README.md", dest |-> "docs/plugins/index.md"],
    [src |-> "documentation/router/builder/README.md", dest |-> "docs/router/builder.md"],
    [src |-> "documentation/tutorial.md", dest |-> "docs/guide/tutorial.md"],
    [src |-> "documentation/route/README.md", dest |-> "docs/router/route.md"]
    >>

\* the source and the destination paths of the list
Sources == {mappings[k].src : k \in 1..Len(mappings)}
Dests == {mappings[k].dest : k \in 1..Len(mappings)}

\* the file system when the script starts: some of the sources exist, and a
\* destination may be left from earlier work
InitRemaining ==
    \E present \in {P \in SUBSET Sources : Cardinality(P) <= MaxPresent} :
    \E content \in [present -> Contents] :
    \E stale \in {{}} \cup {{d} : d \in Dests} :
        /\ fs = content @@ [p \in stale |-> OldContent]
        /\ dirs = UNION {WithAncestors(Dirname(p)) : p \in present \cup stale}
        /\ listing = <<>>
        /\ fs0 = fs
        /\ run = 1
        /\ prev = [outcome |-> "none", fs |-> fs, start |-> fs]
        /\ pc = "copy"
        /\ InitLocals
        /\ PageClosed

\* as CopyPair, without the test of line 27: the read of a missing source throws
CopyPairNoCheck ==
    /\ pc = "copy"
    /\ i <= Len(mappings)
    /\ LET map == mappings[i]
           srcPath == map.src
           destPath == map.dest
           destDir == Dirname(destPath)
           made == IF existsSync(destDir) THEN <<>> ELSE <<Mkdir(destDir)>>
       IN  /\ dirs' = IF existsSync(destDir) THEN dirs ELSE mkdirSync(destDir)
           /\ IF srcPath \in DOMAIN fs
                THEN /\ fs' = writeFileSync(destPath, readFileSync(srcPath))
                     /\ stdout' = Append(stdout,
                            "Migrated " \o map.src \o " -> " \o map.dest)
                     /\ effects' = effects \o made \o
                            <<Write(destPath),
                              Log("Migrated " \o map.src \o " -> " \o map.dest)>>
                     /\ i' = i + 1
                     /\ UNCHANGED <<pc, err>>
                ELSE /\ pc' = "crashed"
                     /\ err' = "ENOENT"
                     /\ effects' = effects \o made
                     /\ UNCHANGED <<fs, stdout, i>>
    /\ UNCHANGED <<locals, hist, page>>

\* as CopyPair, with the write outside the test of line 27: a missing source
\* leaves an empty destination
CopyPairWritesAlways ==
    /\ pc = "copy"
    /\ i <= Len(mappings)
    /\ LET map == mappings[i]
           srcPath == map.src
           destPath == map.dest
           destDir == Dirname(destPath)
           made == IF existsSync(destDir) THEN <<>> ELSE <<Mkdir(destDir)>>
       IN  /\ dirs' = IF existsSync(destDir) THEN dirs ELSE mkdirSync(destDir)
           /\ IF srcPath \in DOMAIN fs
                THEN /\ fs' = writeFileSync(destPath, readFileSync(srcPath))
                     /\ stdout' = Append(stdout,
                            "Migrated " \o map.src \o " -> " \o map.dest)
                     /\ effects' = effects \o made \o
                            <<Write(destPath),
                              Log("Migrated " \o map.src \o " -> " \o map.dest)>>
                ELSE /\ fs' = writeFileSync(destPath, "")
                     /\ stdout' = Append(stdout, "WARNING: Source not found: " \o map.src)
                     /\ effects' = effects \o made \o
                            <<Write(destPath),
                              Log("WARNING: Source not found: " \o map.src)>>
    /\ i' = i + 1
    /\ UNCHANGED <<pc, err, locals, hist, page>>

\* as CopyPair, with the directory made only for a pair whose source exists
CopyPairMkdirIfSource ==
    /\ pc = "copy"
    /\ i <= Len(mappings)
    /\ LET map == mappings[i]
           srcPath == map.src
           destPath == map.dest
           destDir == Dirname(destPath)
           made == IF existsSync(destDir) THEN <<>> ELSE <<Mkdir(destDir)>>
       IN  /\ dirs' = IF existsSync(destDir) \/ ~existsSync(srcPath)
                      THEN dirs ELSE mkdirSync(destDir)
           /\ IF existsSync(srcPath)
                THEN IF srcPath \in dirs
                       THEN /\ pc' = "crashed"
                            /\ err' = "EISDIR"
                            /\ effects' = effects \o made
                            /\ UNCHANGED <<fs, stdout, i>>
                       ELSE /\ fs' = writeFileSync(destPath, readFileSync(srcPath))
                            /\ stdout' = Append(stdout,
                                   "Migrated " \o map.src \o " -> " \o map.dest)
                            /\ effects' = effects \o made \o
                                   <<Write(destPath),
                                     Log("Migrated " \o map.src \o " -> " \o map.dest)>>
                            /\ i' = i + 1
                            /\ UNCHANGED <<pc, err>>
                ELSE /\ stdout' = Append(stdout, "WARNING: Source not found: " \o map.src)
                     /\ effects' = Append(effects,
                            Log("WARNING: Source not found: " \o map.src))
                     /\ i' = i + 1
                     /\ UNCHANGED <<pc, err, fs>>
    /\ UNCHANGED <<locals, hist, page>>

\* lines 17-34, the callback of forEach on one pair; readFileSync throws when
\* the source is a directory
CopyPair ==
    /\ pc = "copy"
    /\ i <= Len(mappings)
    /\ LET map == mappings[i]
           srcPath == map.src
           destPath == map.dest
           destDir == Dirname(destPath)
           made == IF existsSync(destDir) THEN <<>> ELSE <<Mkdir(destDir)>>
       IN  /\ dirs' = IF existsSync(destDir) THEN dirs ELSE mkdirSync(destDir)
           /\ IF existsSync(srcPath)
                THEN IF srcPath \in dirs
                       THEN /\ pc' = "crashed"
                            /\ err' = "EISDIR"
                            /\ effects' = effects \o made
                            /\ UNCHANGED <<fs, stdout, i>>
                       ELSE /\ fs' = writeFileSync(destPath, readFileSync(srcPath))
                            /\ stdout' = Append(stdout,
                                   "Migrated " \o map.src \o " -> " \o map.dest)
                            /\ effects' = effects \o made \o
                                   <<Write(destPath),
                                     Log("Migrated " \o map.src \o " -> " \o map.dest)>>
                            /\ i' = i + 1
                            /\ UNCHANGED <<pc, err>>
                ELSE /\ stdout' = Append(stdout, "WARNING: Source not found: " \o map.src)
                     /\ effects' = effects \o made \o
                            <<Log("WARNING: Source not found: " \o map.src)>>
                     /\ i' = i + 1
                     /\ UNCHANGED <<pc, err, fs>>
    /\ UNCHANGED <<locals, hist, page>>

\* forEach has returned: the script ends
ExitRemaining ==
    /\ pc = "copy"
    /\ i > Len(mappings)
    /\ pc' = "done"
    /\ UNCHANGED <<fs, dirs, i, stdout, effects, err, locals, hist, page>>

\* as ThrowInCopy, with the callback's body in a try block whose catch logs
\* nothing: the loop goes on with the next pair
ThrowInCopyCaught ==
    /\ pc = "copy"
    /\ i <= Len(mappings)
    /\ LET destDir == Dirname(mappings[i].dest)
       IN  \/ /\ ~existsSync(destDir)
              /\ UNCHANGED dirs
           \/ /\ existsSync(mappings[i].src)
              /\ dirs' = IF existsSync(destDir) THEN dirs ELSE mkdirSync(destDir)
    /\ i' = i + 1
    /\ UNCHANGED <<fs, pc, err, stdout, effects, locals, hist, page>>

\* an fs call of the callback throws for a reason of the environment:
\* mkdirSync (called when the directory is missing), or readFileSync or
\* writeFileSync (called when the source exists, after the directory was
\* made).  A writeFileSync that throws leaves the destination as it was, or
\* empty when the file was open already.
ThrowInCopy ==
    /\ pc = "copy"
    /\ i <= Len(mappings)
    /\ LET destPath == mappings[i].dest
           destDir == Dirname(destPath)
           made == IF existsSync(destDir) THEN <<>> ELSE <<Mkdir(destDir)>>
       IN  \/ /\ ~existsSync(destDir)
              /\ UNCHANGED <<fs, dirs, effects>>
           \/ /\ existsSync(mappings[i].src)
              /\ dirs' = IF existsSync(destDir) THEN dirs ELSE mkdirSync(destDir)
              /\ \/ /\ effects' = effects \o made
                    /\ UNCHANGED fs
                 \/ /\ mappings[i].src \notin dirs
                    /\ destPath \notin dirs
                    /\ fs' = truncated(destPath)
                    /\ effects' = effects \o made \o <<Truncate(destPath)>>
    /\ pc' = "crashed"
    /\ err' = "EIO"
    /\ UNCHANGED <<i, stdout, locals, hist, page>>

NextRemaining ==
    \/ CopyPair
    \/ ExitRemaining
    \/ ThrowInCopy

SpecRemaining == InitRemaining /\ [][NextRemaining]_vars

\* the two scripts: a process of either starts on the file system as found,
\* and part_000 may be started once the script before it has completed
InitBoth == Init \/ InitRemaining
NextBoth == Next \/ NextRemaining
SpecBoth == InitBoth /\ [][NextBoth]_vars

----------------------------------------------------------------------------
(* What the claims about the Doc Migrator speak of *)

\* n is a subdirectory of the source directory that held a README.md when the
\* run started
IsTopic(n) == MwPath(n) \in dirs /\ ReadmePath(n) \in DOMAIN fs0

\* n is a subdirectory of the source directory without a README.md
IsBareDir(n) == MwPath(n) \in dirs /\ ReadmePath(n) \notin DOMAIN fs0

\* the topics in the order of the directory listing
Topics == SelectSeq(listing, IsTopic)

\* forEach has returned
ScanOver ==
    \/ pc = "scan" /\ i > Len(middlewares)
    \/ pc \in {"config", "sidebar", "dump", "done"}

\* index.md has been written by the current run
IndexWritten == pc \in {"config", "sidebar", "dump", "done"}

\* the lines of the bytes t
Lines(t) ==
    LET cuts == {0} \cup {k \in 1..Len(t) : CharAt(t, k) = "\n"} \cup {Len(t) + 1}
        starts == cuts \ {Len(t) + 1}
        nth(k) == CHOOSE a \in starts : Cardinality({x \in starts : x < a}) = k - 1
        stop(a) == CHOOSE e \in cuts : e > a /\ \A x \in cuts : x > a => e <= x
    IN  [k \in 1..Cardinality(starts) |-> SubSeq(t, nth(k) + 1, stop(nth(k)) - 1)]

\* the line holds a Markdown link: ']' followed by '('
IsLinkLine(l) == \E k \in 1..(Len(l) - 1) : SubSeq(l, k, k + 1) = "]("

\* the lines of index.md that hold a link, in the order of the file
IndexLinkLines == SelectSeq(Lines(fs[IndexPath]), IsLinkLine)

\* the bytes of the link line of topic n
LinkLineOf(n) == Utf8Encode("- [" \o n \o "](/middleware/" \o n \o ")")

\* C1 (as claimed): after a completed run the target holds, for every
\* subdirectory D of the source with a README.md, whatever D is called, a file
\* D.md whose bytes are those of D/README.md.
C1_EveryReadmeCopied ==
    pc = "done" =>
        \A n \in Range(listing) :
            IsTopic(n) => FileAt(fs, TargetPath(n)) = File(fs0[ReadmePath(n)])

\* C2 (as claimed): after a completed run, for every subdirectory D of the
\* source without a README.md the target holds no file D.md, and D is neither
\* linked in index.md nor in the collected list.
C2_NoFileForBareDir ==
    pc = "done" =>
        \A n \in Range(listing) :
            IsBareDir(n) =>
                /\ TargetPath(n) \notin DOMAIN fs
                /\ LinkLineOf(n) \notin Range(IndexLinkLines)
                /\ n \notin Range(middlewareList)

\* C2 (amended): after a completed run, for every subdirectory D of the source
\* without a README.md the run has written nothing for D: D.md is as it was
\* when the run started (absent if it was absent), unless D.md is index.md,
\* which the run overwrites with the generated index; and D is neither linked
\* in index.md nor in the collected list.
C2_NothingWrittenForBareDir ==
    pc = "done" =>
        \A n \in Range(listing) :
            IsBareDir(n) =>
                /\ TargetPath(n) # IndexPath =>
                       FileAt(fs, TargetPath(n)) = FileAt(fs0, TargetPath(n))
                /\ LinkLineOf(n) \notin Range(IndexLinkLines)
                /\ n \notin Range(middlewareList)

\* C2 witness: the example of the specification, auth/README.md and empty/,
\* after a completed run in a target that held no empty.md
C2_Witness ==
    /\ pc = "done"
    /\ Range(listing) = {"auth", "empty"}
    /\ IsTopic("auth") /\ IsBareDir("empty")
    /\ TargetPath("auth") \in DOMAIN fs
    /\ TargetPath("empty") \notin DOMAIN fs
    /\ IndexLinkLines = <<LinkLineOf("auth")>>

\* C3: when the scan is over, a name is in middlewareList if and only if it
\* is a subdirectory of the source directory that held a README.md.
C3_ListIffReadme ==
    ScanOver =>
        \A n \in Names : n \in Range(middlewareList) <=> IsTopic(n)

\* C3 witness: the scan is over, one entry was collected and one directory
\* without README.md was not
C3_Witness ==
    /\ ScanOver
    /\ Len(middlewareList) = 1
    /\ \E n \in Range(listing) : IsBareDir(n)

\* C4: the lines of index.md that hold a link are exactly the lines
\* '- [name](/middleware/name)' of the migrated topics, one each, in the order
\* in which the directory listing returned the topics.
C4_IndexLinksInListingOrder ==
    IndexWritten =>
        IndexLinkLines = [k \in 1..Len(Topics) |-> LinkLineOf(Topics[k])]

\* C4 witness: an index of two topics has been written
C4_Witness == IndexWritten /\ Len(Topics) = 2 /\ Len(IndexLinkLines) = 2

\* C5: a second run over the same sources and the same listing order leaves
\* every file as the first run left it, and creates no file.
C5_SecondRunSameFiles ==
    (run > 1 /\ pc = "done") => fs = prev.fs

\* C5 witness: the second run has completed and has migrated a topic over the
\* file the first run wrote
C5_Witness ==
    /\ run = 2 /\ pc = "done" /\ prev.outcome = "done"
    /\ middlewareList # <<>>
    /\ \A n \in Range(middlewareList) : TargetPath(n) \in DOMAIN fs0

\* C9 (as claimed): every completed run prints the sidebar block it built.
C9_SectionPrinted ==
    pc = "done" => newSidebarSection \in Range(stdout)

\* C9 (amended): every completed run builds the sidebar block (the title
\* entry and one item per topic) and does not print it: after the 'Migrated'
\* lines it prints the line 'Middleware List for Sidebar:' and the JSON text of
\* the list of names, and nothing else.
C9_SectionBuiltListPrinted ==
    pc = "done" =>
        /\ newSidebarSection = NewSidebarSection(SidebarItems(Topics))
        /\ newSidebarSection \notin Range(stdout)
        /\ Len(stdout) = Len(Topics) + 2
        /\ stdout[Len(stdout) - 1] = ListHeader
        /\ stdout[Len(stdout)] = JsonStringify(Topics)

\* C9 witness: a completed run that collected a topic, so that the block has
\* an item
C9_Witness ==
    /\ pc = "done"
    /\ Len(middlewareList) >= 1
    /\ Len(newSidebarSection) > Len(SidebarHead) + Len(SidebarTail)

\* C10: config.mts is never written: in every state of a run, completed or
\* crashed, it is as it was when the run started.
C10_ConfigNeverWritten ==
    FileAt(fs, configPath) = FileAt(fs0, configPath)

\* C10 witness: a run that read config.mts has completed
C10_Witness ==
    /\ pc = "done"
    /\ configPath \in DOMAIN fs
    /\ configContent = Utf8Decode(OldContent)
    /\ middlewareList # <<>>

----------------------------------------------------------------------------
(* What the claims about the path-pair copy script speak of *)

\* the source of pair k existed when the script started
SourcePresent(k) == mappings[k].src \in DOMAIN fs0

\* the pairs the callback has returned from
Processed == 1..(i - 1)

\* the text s starts with the text pre
StartsWith(s, pre) == Len(s) >= Len(pre) /\ SubSeq(s, 1, Len(pre)) = pre

\* the lines of stdout that start with pre
LinesWith(pre) == {k \in 1..Len(stdout) : StartsWith(stdout[k], pre)}

\* C6: a missing source never makes the script throw, and a completed run has
\* processed every pair and printed, for each pair, one line: the line
\* 'WARNING: Source not found: <src>' when its source does not exist, a line
\* 'Migrated ...' when it exists; so there are as many warnings as missing
\* sources and as many 'Migrated' lines as existing sources.
C6_OneLinePerPair ==
    /\ err # "ENOENT"
    /\ pc = "done" =>
        /\ Len(stdout) = Len(mappings)
        /\ \A k \in 1..Len(mappings) :
              IF SourcePresent(k)
                THEN StartsWith(stdout[k], "Migrated " \o mappings[k].src)
                ELSE stdout[k] = "WARNING: Source not found: " \o mappings[k].src
        /\ Cardinality(LinesWith("WARNING: Source not found: "))
             = Cardinality({k \in 1..Len(mappings) : ~SourcePresent(k)})
        /\ Cardinality(LinesWith("Migrated "))
             = Cardinality({k \in 1..Len(mappings) : SourcePresent(k)})

\* C6 witness: a completed run over a list with existing and missing sources,
\* the existing one copied
C6_Witness ==
    /\ pc = "done"
    /\ \E k \in 1..Len(mappings) :
          /\ SourcePresent(k)
          /\ mappings[k].dest \in DOMAIN fs
          /\ mappings[k].dest \notin DOMAIN fs0
    /\ Cardinality(LinesWith("WARNING: Source not found: ")) >= 1

\* C7 (as claimed): once a pair whose source exists is processed, the
\* destination holds the bytes of the source, and the source is unchanged.
C7_DestEqualsSource ==
    \A k \in Processed :
        SourcePresent(k) =>
            /\ FileAt(fs, mappings[k].dest) = File(fs0[mappings[k].src])
            /\ FileAt(fs, mappings[k].src) = FileAt(fs0, mappings[k].src)

\* C8: a pair whose source is missing leaves its destination as it was (not
\* created, not modified) and does not end the run (the run ends early only
\* at a pair whose source exists or whose directory mkdirSync could not
\* make): the pairs after it are processed as usual, a line each, and the
\* destination of every pair whose source exists is written.
C8_MissingSourceSkipped ==
    /\ \A k \in Processed :
          ~SourcePresent(k) =>
              FileAt(fs, mappings[k].dest) = FileAt(fs0, mappings[k].dest)
    /\ pc = "crashed" =>
          SourcePresent(i) \/ Dirname(mappings[i].dest) \notin dirs
    /\ \A k \in Processed :
          /\ Len(stdout) >= k
          /\ SourcePresent(k) => mappings[k].dest \in DOMAIN fs

\* C8 witness: the run has completed, the first pair had no source and a
\* destination left from earlier work, a later pair had a source
C8_Witness ==
    /\ pc = "done"
    /\ ~SourcePresent(1)
    /\ FileAt(fs, mappings[1].dest) = File(OldContent)
    /\ \E k \in 2..Len(mappings) : SourcePresent(k)

----------------------------------------------------------------------------
(* Console output, failures and order of the Doc Migrator *)

\* the positions of effects that hold the effect e
PositionsOf(e) == {k \in 1..Len(effects) : effects[k] = e}

\* the line the script prints for topic n
MigratedLine(n) == "Migrated " \o n

\* C11: in every state each 'Migrated <topic>' line was printed after a write
\* of that topic's target file; on a completed run stdout is one such line
\* per migrated topic, in the order of the listing, then the header of the
\* dump and the JSON text of the list of exactly those topics.
C11_LogAfterWriteThenDump ==
    /\ \A n \in Names :
          \A k \in PositionsOf(Log(MigratedLine(n))) :
              \E j \in PositionsOf(Write(TargetPath(n))) : j < k
    /\ pc = "done" =>
          /\ stdout = [k \in 1..Len(Topics) |-> MigratedLine(Topics[k])]
                      \o <<ListHeader, JsonStringify(Topics)>>
          /\ \A n \in Names :
                Cardinality(PositionsOf(Log(MigratedLine(n))))
                  = (IF n \in Range(Topics) THEN 1 ELSE 0)
          /\ SelectSeq(effects, LAMBDA e : e.op = "log")
               = [k \in 1..Len(stdout) |-> Log(stdout[k])]

\* C11 witness: a completed run that migrated two topics
C11_Witness ==
    /\ pc = "done"
    /\ Len(Topics) = 2
    /\ Len(stdout) = 4

\* the process has written no file, emptied none and logged nothing
NothingWrittenOrLogged ==
    /\ fs = fs0
    /\ stdout = <<>>
    /\ \A k \in 1..Len(effects) : effects[k].op = "mkdir"

\* C12: while the source directory does not exist the run gets no further
\* than the listing, where it ends crashed; a step that fails the listing,
\* for whatever reason, ends the process with no file written or emptied and
\* nothing logged; and a crashed process takes no further step.
C12_ListingFailureEndsRun ==
    /\ [](sourceDir \notin dirs =>
            pc \in {"start", "list", "crashed"} /\ NothingWrittenOrLogged)
    /\ [][(pc = "list" /\ sourceDir \notin dirs) => pc' = "crashed"]_vars
    /\ [][(pc = "list" /\ pc' = "crashed") =>
            (NothingWrittenOrLogged /\ NothingWrittenOrLogged')]_vars
    /\ [][pc # "crashed"]_vars

\* C12 witness: the listing failed in a source directory that holds a topic,
\* with the target directory in place
C12_Witness ==
    /\ pc = "crashed"
    /\ middlewares = <<>>
    /\ targetDir \in dirs
    /\ \E n \in Range(listing) : IsTopic(n)

\* the process ended while it handled the entry at position i of the listing
CrashedAtEntry == pc = "crashed" /\ i <= Len(middlewares)

\* the file that the copy of lines 20-22 leaves for topic n
CopyOf(n) == File(Utf8Encode(Utf8Decode(fs0[ReadmePath(n)])))

\* C13 (as claimed): when the process ends at the k-th entry, the target files
\* of the topics before k hold what was copied to them, the target files of
\* the entries after k are as they were when the run started, and so is
\* index.md.
C13_CrashKeepsEarlierCopies ==
    CrashedAtEntry =>
        /\ \A j \in 1..(i - 1) :
              IsTopic(middlewares[j]) =>
                  FileAt(fs, TargetPath(middlewares[j])) = CopyOf(middlewares[j])
        /\ \A j \in (i + 1)..Len(middlewares) :
              FileAt(fs, TargetPath(middlewares[j]))
                = FileAt(fs0, TargetPath(middlewares[j]))
        /\ FileAt(fs, IndexPath) = FileAt(fs0, IndexPath)

\* C14 (as claimed): index.md is written only once every entry has been
\* scanned and after the file of every topic was written; a completed run has
\* written it exactly once, and it holds the generated index whatever it held
\* before.
C14_IndexWrittenOnceAfterScan ==
    /\ \A k \in PositionsOf(Write(IndexPath)) :
          /\ middlewares = listing /\ i > Len(listing)
          /\ \A n \in Range(Topics) :
                \E j \in PositionsOf(Write(TargetPath(n))) : j < k
    /\ pc = "done" =>
          /\ Cardinality(PositionsOf(Write(IndexPath))) = 1
          /\ FileAt(fs, IndexPath) = File(Utf8Encode(IndexContent(Topics)))

\* C15 (as claimed): at every point of the scan the migration list is the
\* topics among the entries handled so far, in their order (a name is never
\* removed), and every name in it had its target file written, which holds
\* the bytes of its README.md.
C15_ListedImpliesCopied ==
    pc = "scan" =>
        /\ middlewareList = SelectSeq(SubSeq(middlewares, 1, i - 1), IsTopic)
        /\ \A n \in Range(middlewareList) :
              /\ PositionsOf(Write(TargetPath(n))) # {}
              /\ FileAt(fs, TargetPath(n)) = File(fs0[ReadmePath(n)])

\* n is an entry of the source directory that is not a directory
IsPlainFile(n) == n \in Range(listing) /\ MwPath(n) \notin dirs

\* C16: an entry that is not a directory is never in the migration list and
\* never named in a 'Migrated' line; during the scan nothing has been written
\* to the target path of its name; and the step that handles it writes no
\* file, logs nothing and leaves the list as it is.
C16_PlainFileProducesNothing ==
    /\ [](\A n \in Names :
            IsPlainFile(n) =>
                /\ n \notin Range(middlewareList)
                /\ MigratedLine(n) \notin Range(stdout)
                /\ pc = "scan" =>
                      /\ PositionsOf(Write(TargetPath(n))) = {}
                      /\ FileAt(fs, TargetPath(n)) = FileAt(fs0, TargetPath(n)))
    /\ [][(pc = "scan" /\ i <= Len(middlewares) /\ IsPlainFile(middlewares[i])) =>
            UNCHANGED <<fs, dirs, stdout, effects, middlewareList>>]_vars

\* C16 witness: a completed run over a source directory that holds a topic
\* and a plain file named README.md
C16_Witness ==
    /\ pc = "done"
    /\ IsPlainFile("README.md")
    /\ Len(middlewareList) = 1

-----------------------------------------------------------------------------
(* Restart of the Doc Migrator after a crash *)

\* the files f after data has been written to p
Written(f, p, data) ==
    [q \in DOMAIN f \cup {p} |-> IF q = p THEN Utf8Encode(data) ELSE f[q]]

\* the topics of the listing over the files f, in listing order
TopicsOver(f) ==
    SelectSeq(listing, LAMBDA n : MwPath(n) \in dirs /\ ReadmePath(n) \in DOMAIN f)

\* the files after the first k topics of ts have been copied over the files f
RECURSIVE CopiedOver(_, _, _)
CopiedOver(f, ts, k) ==
    IF k = 0 THEN f
    ELSE LET g == CopiedOver(f, ts, k - 1)
         IN  Written(g, TargetPath(ts[k]), Utf8Decode(g[ReadmePath(ts[k])]))

\* the files a single run without a failure leaves when it starts from f
UninterruptedRun(f) ==
    LET ts == TopicsOver(f)
    IN  Written(CopiedOver(f, ts, Len(ts)), IndexPath, IndexContent(ts))

\* C17: a run that completes without a failure leaves the files
\* UninterruptedRun gives for the files it started from; and a run that
\* completes after the run before it crashed leaves the files a single run
\* without a failure would have left from the files the crashed run started
\* from.
C17_RestartEqualsSingleRun ==
    /\ (pc = "done" /\ run = 1) => fs = UninterruptedRun(fs0)
    /\ (pc = "done" /\ run = 2 /\ prev.outcome = "crashed") =>
          fs = UninterruptedRun(prev.start)

\* C17 witness: the first run crashed after it had changed the files, an old
\* copy of a topic was there from the start, and the second run has completed
C17_Witness ==
    /\ pc = "done" /\ run = 2 /\ prev.outcome = "crashed"
    /\ prev.fs # prev.start
    /\ \E n \in Range(middlewareList) : TargetPath(n) \in DOMAIN prev.start
    /\ fs # prev.fs

-----------------------------------------------------------------------------
(* The Doc Migrator as a single pass *)

Terminal == {"done", "crashed"}

\* the position of the script: the order of its statements
Rank(p) ==
    CASE p = "start" -> 1 [] p = "list" -> 2 [] p = "scan" -> 3
      [] p = "config" -> 4 [] p = "sidebar" -> 5 [] p = "dump" -> 6
      [] OTHER -> 7

\* C18: the steps by which the script moves on are exactly the steps of its
\* statements; within one run the index of forEach starts at 1 and only ever moves
\* from an entry of the listing to the next one, and the step that leaves a
\* topic is the one that copies that entry of the listing; the run has gone
\* over every entry once forEach has returned; the script never goes back to
\* an earlier statement and a terminal state is left only by starting a new
\* process, which starts with nothing of the run before; and every run that
\* has not ended ends, completed or crashed.
C18_SingleLinearPass ==
    /\ [][Advance <=> ScriptStep]_vars
    /\ [](pc \in {"start", "list"} => i = 1 /\ middlewares = <<>>)
    /\ [](pc \in {"scan", "config", "sidebar", "dump", "done"} =>
              middlewares = listing /\ i \in 1..(Len(listing) + 1))
    /\ [](pc \in {"config", "sidebar", "dump", "done"} => i = Len(listing) + 1)
    /\ [][run' = run =>
             /\ i' = i \/ (i' = i + 1 /\ pc = "scan" /\ pc' = "scan" /\ i <= Len(listing))
             /\ (i' = i + 1 /\ IsTopic(listing[i])) =>
                    effects' = effects \o <<Write(TargetPath(listing[i])),
                                            Log(MigratedLine(listing[i]))>>
             /\ (i' = i + 1 /\ ~IsTopic(listing[i])) => effects' = effects
             /\ Rank(pc') >= Rank(pc)
             /\ pc \in Terminal => pc' = pc]_vars
    /\ [][run' # run =>
             /\ pc = "done" /\ pc' = "start"
             /\ i' = 1 /\ middlewares' = <<>> /\ middlewareList' = <<>>
             /\ stdout' = <<>>]_vars
    /\ (pc \notin Terminal) ~> (pc \in Terminal)

\* C18 witness: a completed run over two entries of which the second is a topic
C18_Witness ==
    /\ pc = "done"
    /\ Len(listing) = 2 /\ i = 3
    /\ IsTopic(listing[2])

-----------------------------------------------------------------------------
(* The target directory and a run without topics *)

\* the target directory and its parents exist
TargetTreeExists == WithAncestors(targetDir) \subseteq dirs

\* C19: the first statement leaves the target directory and its parents in
\* place, creating them when the directory is absent and touching nothing when
\* it is there, and it does so before anything is listed: the listing, the scan
\* and all that follows run with the directory present, and the mkdir is the
\* first side effect of the run. A completed run over a source without any
\* topic has written index.md with the heading alone, no link line, and has
\* printed the header line and the JSON list '[]' and nothing else.
C19_TargetDirFirstAndEmptyIndex ==
    /\ [](pc \in {"list", "scan", "config", "sidebar", "dump", "done"} =>
              TargetTreeExists)
    /\ [](\A k \in PositionsOf(Mkdir(targetDir)) : k = 1)
    /\ [][(pc = "start" /\ pc' = "list") =>
             /\ middlewares' = <<>>
             /\ fs' = fs
             /\ IF targetDir \in dirs
                  THEN dirs' = dirs /\ effects' = <<>>
                  ELSE /\ dirs' = dirs \cup WithAncestors(targetDir)
                       /\ effects' = <<Mkdir(targetDir)>>]_vars
    /\ []((pc = "done" /\ Topics = <<>>) =>
              /\ PositionsOf(Write(IndexPath)) # {}
              /\ FileAt(fs, IndexPath)
                   = File("# Middleware\n\nGoryu comes with a rich set of built-in middlewares.\n\n## Available Middleware\n\n\n")
              /\ IndexLinkLines = <<>>
              /\ stdout = <<ListHeader, "[]">>)

\* C19 witness: a completed run that had to create the target directory and
\* found entries in the source, none of them a topic
C19_Witness ==
    /\ pc = "done"
    /\ Topics = <<>>
    /\ listing # <<>>
    /\ Mkdir(targetDir) \in Range(effects)

-----------------------------------------------------------------------------
(* The copy script under a failure it does not handle *)

\* the line the copy script prints for pair k
PairLine(k) ==
    IF SourcePresent(k)
      THEN "Migrated " \o mappings[k].src \o " -> " \o mappings[k].dest
      ELSE "WARNING: Source not found: " \o mappings[k].src

\* what the copy of pair k leaves at its destination
PairCopy(k) == File(Utf8Encode(Utf8Decode(fs0[mappings[k].src])))

\* the side effects on the destination of pair k
TouchesDest(k) ==
    PositionsOf(Write(mappings[k].dest)) \cup PositionsOf(Truncate(mappings[k].dest))

\* C20: the loop never gets past a pair without having processed it: the
\* lines printed are those of the pairs before the current one, one each, in
\* order. A step that fails leaves the script at the pair that failed, prints
\* nothing and ends the run for good. After the failure at pair i the
\* destination of every earlier pair with a source holds its copy, the
\* destination of every later pair is as it was at the start with no write to
\* it among the side effects, and no line names a later pair.
C20_AbortKeepsEarlierCopies ==
    /\ [](stdout = [k \in 1..(i - 1) |-> PairLine(k)])
    /\ [][pc' = "crashed" => (pc = "copy" /\ i' = i /\ stdout' = stdout)]_vars
    /\ [][pc # "crashed"]_vars
    /\ [](pc = "crashed" =>
            /\ i \in 1..Len(mappings)
            /\ err \in {"EIO", "EISDIR"}
            /\ \A k \in 1..(i - 1) :
                  FileAt(fs, mappings[k].dest)
                    = (IF SourcePresent(k) THEN PairCopy(k)
                       ELSE FileAt(fs0, mappings[k].dest))
            /\ \A k \in (i + 1)..Len(mappings) :
                  /\ FileAt(fs, mappings[k].dest) = FileAt(fs0, mappings[k].dest)
                  /\ TouchesDest(k) = {}
                  /\ PairLine(k) \notin Range(stdout))

\* C20 witness: the run failed at a pair after it had copied an earlier pair,
\* and a later pair has a source that stays uncopied
C20_Witness ==
    /\ pc = "crashed"
    /\ \E k \in 1..(i - 1) :
          SourcePresent(k) /\ FileAt(fs, mappings[k].dest) = PairCopy(k)
    /\ \E k \in (i + 1)..Len(mappings) :
          SourcePresent(k) /\ mappings[k].dest \notin DOMAIN fs

-----------------------------------------------------------------------------
(* The sidebar block *)

\* the name n with its first character in upper case, by character codes: a
\* lower-case letter a..z is 32 above its upper-case letter
FirstUpper(n) ==
    LET c == CodeOf(CharAt(n, 1))
    IN  (IF c >= 97 /\ c <= 122 THEN CharOf(c - 32) ELSE CharAt(n, 1))
        \o SubSeq(n, 2, Len(n))

\* the line of the sidebar block for the name n
ItemLine(n) ==
    "            { text: '" \o FirstUpper(n) \o "', link: '/middleware/" \o n \o "' },"

\* C21: the sidebar block the script has built is, line by line: the four
\* opening lines, the item 'Overview', then one item per name of the migration
\* list, in the order of the list, whose text is the name with its first
\* character in upper case and the rest as it is and whose link is
\* '/middleware/' followed by the name (one empty line when the list is
\* empty), then the three closing lines.
C21_SidebarItemsCapitalised ==
    pc \in {"dump", "done"} =>
        Lines(newSidebarSection)
          = <<"      '/middleware/': [",
              "        {",
              "          text: 'Middleware',",
              "          items: [",
              "            { text: 'Overview', link: '/middleware/' },">>
            \o (IF middlewareList = <<>> THEN <<"">>
                ELSE [k \in 1..Len(middlewareList) |-> ItemLine(middlewareList[k])])
            \o <<"          ]", "        }", "      ],">>

\* C21 witness: the block has been built for two names, 'auth' among them
C21_Witness ==
    /\ pc = "done"
    /\ Len(middlewareList) = 2
    /\ "auth" \in Range(middlewareList)
    /\ Len(newSidebarSection) > 0

-----------------------------------------------------------------------------
(* The read of config.mts *)

\* the writes among the side effects, in order
WritesDone == SelectSeq(effects, LAMBDA e : e.op = "write")

\* every topic file and then index.md have been written, and only the
\* 'Migrated' lines have been printed
WrittenNotDumped ==
    /\ WritesDone = [k \in 1..Len(Topics) |-> Write(TargetPath(Topics[k]))]
                    \o <<Write(IndexPath)>>
    /\ \A n \in Range(Topics) :
          TargetPath(n) # IndexPath => FileAt(fs, TargetPath(n)) = CopyOf(n)
    /\ FileAt(fs, IndexPath) = File(Utf8Encode(IndexContent(Topics)))
    /\ stdout = [k \in 1..Len(Topics) |-> MigratedLine(Topics[k])]
    /\ ListHeader \notin Range(stdout)
    /\ JsonStringify(Topics) \notin Range(stdout)

\* C22: config.mts is read after index.md has been written and before anything
\* of the dump is printed: when the script is about to read it, every topic
\* file and index.md have been written and the dump has not been printed; if
\* the file does not exist the next step ends the run crashed; and a run that
\* ends at the read, for a missing or an unreadable file, ends with just that:
\* the failing step changes no file and prints nothing, and nothing follows
\* it. The header of the dump is printed only by a run that has read the file.
C22_ConfigReadFailureAfterWrites ==
    /\ [](pc = "config" => WrittenNotDumped)
    /\ [][(pc = "config" /\ configPath \notin DOMAIN fs) => pc' = "crashed"]_vars
    /\ [][(pc = "config" /\ pc' = "crashed") =>
            (err' \in {"ENOENT", "EIO"} /\ UNCHANGED <<fs, stdout, effects>>)]_vars
    /\ [][pc # "crashed"]_vars
    /\ [](ListHeader \in Range(stdout) => pc = "done" /\ configPath \in DOMAIN fs)

\* C22 witness: the run crashed at the read of a config.mts that does not
\* exist, after it had copied a topic and written index.md
C22_Witness ==
    /\ pc = "crashed" /\ err = "ENOENT"
    /\ configPath \notin DOMAIN fs
    /\ Len(middlewareList) >= 1
    /\ Len(WritesDone) = Len(middlewareList) + 1
    /\ FileAt(fs, IndexPath) = File(Utf8Encode(IndexContent(middlewareList)))

-----------------------------------------------------------------------------
(* Files the Doc Migrator leaves alone *)

\* the target file of the name n was there before the run and n is not a
\* topic of this run (no entry n, a plain file n, or a directory n without a
\* README.md)
StaleTarget(n) == TargetPath(n) \in DOMAIN fs0 /\ ~(n \in Range(listing) /\ IsTopic(n))

\* C23 (as claimed): no file is ever deleted, and the target file of every
\* name that is not a topic is as it was before the run, and the name is not
\* in the index the run wrote.
C23_StaleTargetUnchanged ==
    /\ DOMAIN fs0 \subseteq DOMAIN fs
    /\ \A n \in Names :
          StaleTarget(n) =>
              /\ FileAt(fs, TargetPath(n)) = FileAt(fs0, TargetPath(n))
              /\ IndexWritten => LinkLineOf(n) \notin Range(IndexLinkLines)

\* C23 (amended): no file is ever deleted; the target file of every name other
\* than 'index' that is not a topic is as it was before the run, and no name
\* that is not a topic is in the index the run wrote; index.md, which a run
\* that gets that far replaces by the index it generates, is still a file.
C23_StaleTargetUnchangedButIndex ==
    /\ DOMAIN fs0 \subseteq DOMAIN fs
    /\ \A n \in Names :
          StaleTarget(n) =>
              /\ TargetPath(n) # IndexPath =>
                    FileAt(fs, TargetPath(n)) = FileAt(fs0, TargetPath(n))
              /\ IndexWritten => LinkLineOf(n) \notin Range(IndexLinkLines)
    /\ IndexWritten => FileAt(fs, IndexPath) = File(Utf8Encode(IndexContent(Topics)))

\* C23 witness: a completed run that copied a topic, over a source that holds
\* a directory 'empty' without README.md, with an empty.md left from before
C23_Witness ==
    /\ pc = "done"
    /\ IsBareDir("empty") /\ "empty" \in Range(listing)
    /\ StaleTarget("empty")
    /\ FileAt(fs, TargetPath("empty")) = File(OldContent)
    /\ Len(middlewareList) = 1

-----------------------------------------------------------------------------
(* The directories of the copy script *)

\* the directory of the destination of pair k
DestDir(k) == Dirname(mappings[k].dest)

\* C24: once a pair has been processed, with or without a source, the
\* directory of its destination exists, with its parents; and whenever the
\* script made that directory, it made it before it printed the line of the
\* pair (the line 'Migrated' or the warning of the missing source).
C24_DestDirMadeForEveryPair ==
    \A k \in Processed :
        /\ WithAncestors(DestDir(k)) \subseteq dirs
        /\ \A p \in PositionsOf(Mkdir(DestDir(k))) :
              \E q \in PositionsOf(Log(PairLine(k))) : p < q

\* C24 witness: the run has completed, and a directory that did not exist at
\* the start was made for pairs none of which has a source
C24_Witness ==
    /\ pc = "done"
    /\ \E k \in 1..Len(mappings) :
          /\ Mkdir(DestDir(k)) \in Range(effects)
          /\ \A j \in 1..Len(mappings) : DestDir(j) = DestDir(k) => ~SourcePresent(j)
          /\ DestDir(k) \in dirs

-----------------------------------------------------------------------------
(* The order of the pairs of the copy script *)

\* the directories when the copy script starts
dirs0 == UNION {WithAncestors(Dirname(q)) : q \in DOMAIN fs0}

\* the directory of the destination of every pair, and that directory with
\* the directories above it
DestDirs == [k \in 1..Len(mappings) |-> Dirname(mappings[k].dest)]
DestTrees == [k \in 1..Len(mappings) |-> WithAncestors(DestDirs[k])]

\* the files f and directories d after the callback has run on pair k without
\* a failure
AfterPair(k, st) ==
    LET map == mappings[k]
        destDir == DestDirs[k]
    IN  [d |-> IF destDir \in DOMAIN st.f \/ destDir \in st.d
                 THEN st.d ELSE st.d \cup DestTrees[k],
         f |-> IF map.src \in DOMAIN st.f
                 THEN Written(st.f, map.dest, Utf8Decode(st.f[map.src]))
                 ELSE st.f]

\* the files and directories after the callback has run on the first n pairs
\* of the order ord, from st
RECURSIVE AfterPairs(_, _, _)
AfterPairs(ord, n, st) ==
    IF n = 0 THEN st ELSE AfterPair(ord[n], AfterPairs(ord, n - 1, st))

\* the order of the list, and the orders it is compared with: the reverse,
\* every rotation and every exchange of two pairs
ListOrder == [k \in 1..Len(mappings) |-> k]
OtherOrders ==
    {[k \in 1..Len(mappings) |-> Len(mappings) + 1 - k]}
    \cup {[k \in 1..Len(mappings) |-> ((k + r - 1) % Len(mappings)) + 1] :
             r \in 1..(Len(mappings) - 1)}
    \cup {[k \in 1..Len(mappings) |-> IF k = a THEN b ELSE IF k = b THEN a ELSE k] :
             a, b \in 1..Len(mappings)}

\* the end of a run without a failure over the pairs in the order ord, from st
EndOver(ord, st) == AfterPairs(ord, Len(mappings), st)

\* C25: no destination of the list is a source of the list and no two pairs
\* have the same destination; no source is ever written; a completed run ends
\* with the files and directories EndOver gives for the order of the list; and
\* the run would end with the same files and directories over the list in
\* reverse, rotated, or with any two pairs exchanged.
C25_OrderOfPairsIrrelevant ==
    /\ Sources \cap Dests = {}
    /\ \A j, k \in 1..Len(mappings) : j # k => mappings[j].dest # mappings[k].dest
    /\ \A k \in 1..Len(mappings) :
          PositionsOf(Write(mappings[k].src)) \cup PositionsOf(Truncate(mappings[k].src)) = {}
    /\ pc = "done" =>
          LET start == [f |-> fs0, d |-> dirs0]
              end == EndOver(ListOrder, start)
          IN  /\ [f |-> fs, d |-> dirs] = end
              /\ \A ord \in OtherOrders : EndOver(ord, start) = end

\* C25 witness: a completed run that copied two sources of different content,
\* the second over a destination left from earlier work
C25_Witness ==
    /\ pc = "done"
    /\ \E j, k \in 1..Len(mappings) :
          /\ j < k
          /\ SourcePresent(j) /\ SourcePresent(k)
          /\ fs0[mappings[j].src] # fs0[mappings[k].src]
          /\ FileAt(fs0, mappings[k].dest) = File(OldContent)
          /\ FileAt(fs, mappings[j].dest) = PairCopy(j)
          /\ FileAt(fs, mappings[k].dest) = PairCopy(k)

-----------------------------------------------------------------------------
(* The source tree under both scripts *)

\* the path p is the source tree documentation/ or lies in it
UnderSource(p) == p = "documentation" \/ StartsWith(p, "documentation/")

\* the path p is the target tree docs/ or lies in it
UnderTarget(p) == p = "docs" \/ StartsWith(p, "docs/")

\* the files f that lie in the source tree
SourceFiles(f) == [q \in {x \in DOMAIN f : UnderSource(x)} |-> f[q]]

\* C26: in every state of a run of either script, completed or crashed, the
\* files of the source tree are, path for path and byte for byte, those the
\* run started with; no step of either script changes a file or a directory
\* of the source tree; and every directory made and every file written or
\* opened for writing lies in the target tree.
C26_SourceTreeUntouched ==
    /\ [](SourceFiles(fs) = SourceFiles(fs0))
    /\ [][/\ SourceFiles(fs') = SourceFiles(fs)
          /\ {x \in dirs' : UnderSource(x)} = {x \in dirs : UnderSource(x)}]_vars
    /\ [](\A k \in 1..Len(effects) :
              effects[k].op \in {"mkdir", "write", "truncate"} =>
                  UnderTarget(effects[k].arg) /\ ~UnderSource(effects[k].arg))

\* C26 witness: the copy script has completed after copying a source, and
\* part_000, started after it, has made its target directory
C26_Witness ==
    /\ run = 2
    /\ prev.outcome = "done"
    /\ \E k \in 1..Len(mappings) :
          /\ mappings[k].src \in DOMAIN fs
          /\ FileAt(fs, mappings[k].dest) = File(Utf8Encode(Utf8Decode(fs[mappings[k].src])))
          /\ mappings[k].dest \notin DOMAIN prev.start
    /\ Mkdir(targetDir) \in Range(effects)

-----------------------------------------------------------------------------
(* The sidebar generator and the section of docs/.vitepress/config.mts *)

\* config.mts:71-99, the items of the '/middleware/' section after 'Overview'
CheckedInItems == <<
    [text |-> "Auth", link |-> "/middleware/auth"],
    [text |-> "Base", link |-> "/middleware/base"],
    [text |-> "Basicauth", link |-> "/middleware/basicauth"],
    [text |-> "Builder", link |-> "/middleware/builder"],
    [text |-> "Cache", link |-> "/middleware/cache"],
    [text |-> "Circuitbreaker", link |-> "/middleware/circuitbreaker"],
    [text |-> "Compress", link |-> "/middleware/compress"],
    [text |-> "Cors", link |-> "/middleware/cors"],
    [text |-> "Csrf", link |-> "/middleware/csrf"],
    [text |-> "Envvar", link |-> "/middleware/envvar"],
    [text |-> "Errors", link |-> "/middleware/errors"],
    [text |-> "Expvar", link |-> "/middleware/expvar"],
    [text |-> "Favicon", link |-> "/middleware/favicon"],
    [text |-> "Fileserver", link |-> "/middleware/fileserver"],
    [text |-> "Graceful", link |-> "/middleware/graceful"],
    [text |-> "Healthcheck", link |-> "/middleware/healthcheck"],
    [text |-> "Limiter", link |-> "/middleware/limiter"],
    [text |-> "Logger", link |-> "/middleware/logger"],
    [text |-> "Metrics", link |-> "/middleware/metrics"],
    [text |-> "Recovery", link |-> "/middleware/recovery"],
    [text |-> "Requestid", link |-> "/middleware/requestid"],
    [text |-> "Secure", link |-> "/middleware/secure"],
    [text |-> "Secure Cookie", link |-> "/middleware/secure_cookie"],
    [text |-> "Session", link |-> "/middleware/session"],
    [text |-> "Structlog", link |-> "/middleware/structlog"],
    [text |-> "Timeout", link |-> "/middleware/timeout"],
    [text |-> "Tls Redirect", link |-> "/middleware/tls_redirect"],
    [text |-> "Tracing", link |-> "/middleware/tracing"],
    [text |-> "Trustproxy", link |-> "/middleware/trustproxy"]
    >>

\* the name an item of the section links to
LinkedName(item) == SubSeq(item.link, Len("/middleware/") + 1, Len(item.link))

\* the names the section links to
CheckedInNames == {LinkedName(CheckedInItems[k]) : k \in 1..Len(CheckedInItems)}

\* the item of the section for the name n
CheckedInItem(n) ==
    CheckedInItems[CHOOSE k \in 1..Len(CheckedInItems) : LinkedName(CheckedInItems[k]) = n]

\* part_000 has read config.mts after a scan of the topics list, each with a
\* README.md holding '#': the files, the output and the variables at line 45
InitSidebar ==
    \E list \in DistinctSeqs(CheckedInNames, MaxEntries) :
        /\ listing = list
        /\ middlewares = list
        /\ middlewareList = list
        /\ i = Len(list) + 1
        /\ dirs = WithAncestors(sourceDir) \cup WithAncestors(targetDir)
                  \cup WithAncestors(Dirname(configPath))
                  \cup {MwPath(list[k]) : k \in 1..Len(list)}
        /\ fs0 = [p \in {ReadmePath(list[k]) : k \in 1..Len(list)} |-> "#"]
                 @@ [p \in {configPath} |-> OldContent]
        /\ indexContent = IndexContent(list)
        /\ fs = [p \in {IndexPath} |-> Utf8Encode(indexContent)]
                @@ [p \in {TargetPath(list[k]) : k \in 1..Len(list)} |-> "#"]
                @@ fs0
        /\ stdout = [k \in 1..Len(list) |-> "Migrated " \o list[k]]
        /\ effects = <<Mkdir(targetDir)>>
                     \o Concat2([k \in 1..Len(list) |->
                            <<Write(TargetPath(list[k])), Log("Migrated " \o list[k])>>])
                     \o <<Write(IndexPath)>>
        /\ configContent = Utf8Decode(OldContent)
        /\ sidebarItems = ""
        /\ newSidebarSection = ""
        /\ err = "none"
        /\ run = 1
        /\ prev = [outcome |-> "none", fs |-> fs0, start |-> fs0]
        /\ pc = "sidebar"
        /\ PageClosed

\* lines 45-65 of part_000
NextSidebar == BuildSidebar \/ DumpList

SpecSidebar == InitSidebar /\ [][NextSidebar]_vars

\* the line of the section's item, written as the generator writes an item
AsGenerated(item) ==
    "            { text: '" \o item.text \o "', link: '" \o item.link \o "' },"

\* C27 (as claimed): for every name the section of config.mts links to, the
\* item the generator builds is the item of the section: the same link and the
\* same display text.
C27_CheckedInSectionIsGenerated ==
    pc \in {"dump", "done"} =>
        \A k \in 1..Len(middlewareList) :
            Lines(newSidebarSection)[5 + k] = AsGenerated(CheckedInItem(middlewareList[k]))

-----------------------------------------------------------------------------
(* The migration list against the directory listing *)

\* the names of a sequence are pairwise different
NoRepeat(list) ==
    \A a, b \in 1..Len(list) : list[a] = list[b] => a = b

\* C28: at every point of the scan, and after it, the migration list holds
\* no name twice and is no longer than the directory listing; during the scan
\* it is no longer than the number of entries already visited
C28_ListDistinctAndBounded ==
    /\ NoRepeat(middlewareList)
    /\ Len(middlewareList) <= Len(listing)
    /\ pc = "scan" =>
          /\ middlewares = listing
          /\ i - 1 <= Len(middlewares)
          /\ Len(middlewareList) <= i - 1
          /\ Range(middlewareList) \subseteq {middlewares[k] : k \in 1..(i - 1)}

\* the scan has pushed at least two names
C28_Witness ==
    /\ pc = "scan"
    /\ Len(middlewareList) >= 2
    /\ i = Len(middlewares) + 1

-----------------------------------------------------------------------------
(* The layout of the site, src/docs/.vitepress/theme/Layout.vue *)

\* lines 19-20 with the branches of v-if exchanged
RenderSwapped(dark) ==
    IF dark THEN "\\uD83C\\uDF19 Dark" ELSE "\\u2600\\uFE0F Light"

\* lines 18-21: the text of the span that the button shows for a value of isDark
Render(dark) ==
    IF dark THEN "\\u2600\\uFE0F Light" ELSE "\\uD83C\\uDF19 Dark"

\* as toggleAppearance, with isDark.value = true
toggleAppearanceSetsDark ==
    isDark' = TRUE

\* lines 9-11
toggleAppearance ==
    isDark' = ~isDark

\* the layout is set up and rendered: isDark is what useData() gives (the
\* stored or preferred appearance); no script runs meanwhile
InitLayout ==
    /\ isDark \in BOOLEAN
    /\ isDark0 = isDark
    /\ clicks = 0
    /\ label = Render(isDark)
    /\ fs = [p \in {} |-> ""]
    /\ dirs = {}
    /\ listing = <<>>
    /\ fs0 = fs
    /\ run = 1
    /\ prev = [outcome |-> "none", fs |-> fs, start |-> fs]
    /\ pc = "done"
    /\ InitLocals

\* line 18, @click: the handler runs, and the template is rendered again
\* for the new value before the next event
Click ==
    /\ clicks < MaxClicks
    /\ toggleAppearance
    /\ label' = Render(isDark')
    /\ clicks' = clicks + 1
    /\ UNCHANGED <<fs, dirs, pc, i, stdout, effects, err, locals, hist, isDark0>>

NextLayout == Click

SpecLayout == InitLayout /\ [][NextLayout]_vars

\* the text ends with the word
EndsWith(s, word) ==
    Len(s) >= Len(word) /\ SubSeq(s, Len(s) - Len(word) + 1, Len(s)) = word

\* C29: each click on the toggle button negates isDark and changes nothing
\* else (the rendered label and the count of clicks follow it); after n clicks
\* isDark is its initial value iff n is even; the button shows the 'Light'
\* label exactly when isDark is true, and the 'Dark' label otherwise.
C29_ThemeToggle ==
    /\ [][clicks' # clicks =>
            /\ clicks' = clicks + 1
            /\ isDark' = ~isDark
            /\ UNCHANGED <<fs, dirs, pc, i, stdout, effects, err, locals, hist,
                           isDark0>>]_vars
    /\ [](isDark = isDark0 <=> clicks % 2 = 0)
    /\ [](EndsWith(label, "Light") <=> isDark)
    /\ [](EndsWith(label, "Dark") <=> ~isDark)

\* the button has been clicked an odd number of times, more than once, from
\* the light appearance
C29_Witness ==
    /\ clicks >= 3
    /\ clicks % 2 = 1
    /\ ~isDark0
    /\ isDark
    /\ EndsWith(label, "Light")

====
